---------------------------- MODULE Spec2Model ----------------------------
(***************************************************************************)
(* State-machine model of the plans of apstools/plans.py.                  *)
(*                                                                         *)
(*   Spec         sscan_1D: the plan (one step per statement of the        *)
(*                generator), the notification callbacks execute_cb and    *)
(*                phase_cb running on the driver's context, and the sscan  *)
(*                record that produces the notifications.                  *)
(*   SpecBlocker  run_blocker_in_plan: the plan and the thread started by  *)
(*                run_in_thread.                                           *)
(*                                                                         *)
(* Time is counted in units of 10^-7 s, so that 0.1 s is 1000000 and       *)
(* 0.1000001 s is 1000001.  The clock advances in bps.sleep(), by the      *)
(* sleep's argument; every other statement takes no time.  Notifications   *)
(* may arrive between any two statements of a plan.                        *)
(***************************************************************************)
EXTENDS Integers, Sequences, FiniteSets, TLC

\* ------------------------------------------------------------------ bounds
\* how far the clock of connect_pvlist runs, in units of 0.01 s
MaxConnectTime == 4

\* longest obj_list given to snapshot
MaxObjs == 3

\* The clock saturates here (an unbounded scan would count for ever).
MaxTime == 2000000

\* Phase notifications one scan of the sscan record produces at most.
MaxPhase == 2

\* The clock of run_blocker_in_plan saturates here.
MaxBlockerTime == 400000

\* -------------------------------------------------------- program constants

\* assert 0 <= poll_delay_s <= 0.1
PollMax == 1000000

\* FAZE value "RECORD SCALAR DATA"
NewDataPhase == 15

\* EXSC / FAZE value "IDLE"
IdleValue == 0

\* run_blocker_in_plan: _poll_s_=0.01
DefaultPoll == 100000

\* Python's None, and a value that is not None
None == << >>
Some(x) == << x >>
Val(o) == o[1]

\* values offered as poll_delay_s: two that the assertion refuses, three that pass
PollChoices == { -1, 0, 500000, 1000000, 1000001 }

\* values FAZE takes while the record scans: one that announces a row, one that does not
PhaseValues == { NewDataPhase, 6 }

\* values offered as phase_timeout_s
TimeoutChoices == { None, Some(1000000) }

Min(a, b) == IF a < b THEN a ELSE b

\* TuneAxis.__init__, lines 495-498.  Positions and widths are counted in
\* units of 1/73728 of an axis unit, so that the width 1 of line 495 is
\* 73728: every division the plans apply to it (by 2, by num - 1 = 9, by
\* step_factor = 4 after each of pass_max = 6 passes) is then exact.
DefaultWidth == 73728
DefaultNum == 10
DefaultStepFactor == 4
DefaultPassMax == 6
\* line 712: ymax > 4*ymin
PeakRatio == 4
\* utils.py, line 117: timeout=2, poll_interval=0.1, and line 145: 0.01, in
\* units of 0.01 s
DefaultConnectTimeout == 200
DefaultConnectPoll == 10
ConnectPollCap == 1
\* the PV names given to connect_pvlist
PVs == { "pv1", "pv2" }

\* line 481: _peak_choices_
PeakChoices == { "cen", "com" }
\* the readings of the detector signal
SampleValues == { 1, 3, 4, 10 }

VARIABLES
    \* ---- sscan_1D: arguments
    poll_delay_s,            \* argument poll_delay_s
    phase_timeout_s,         \* argument phase_timeout_s (None or Some(t))
    running_stream,          \* argument running_stream (None or Some(name))
    final_array_stream,      \* argument final_array_stream
    device_settings_stream,  \* argument device_settings_stream
    \* ---- sscan_1D: state of the plan
    pc,                      \* the statement the generator is at
    started,                 \* local "started", read by execute_cb
    new_data,                \* global "new_data"
    inactive_deadline,       \* global "inactive_deadline"
    sscan_status,            \* the DeviceStatus: [done, success]
    rowbuf,                  \* the row being assembled between create and save
    records,                 \* what the plan has emitted, in order
    error,                   \* the exception that ended the plan, "" if none
    \* ---- the driver's context
    subsExec,                \* execute_cb is subscribed to sscan.execute_scan
    subsPhase,               \* phase_cb is subscribed to sscan.scan_phase
    cbpc,                    \* the statement execute_cb is at ("none": no callback runs)
    \* ---- the sscan record
    devExec,                 \* value of EXSC
    devPhases,               \* phase notifications produced since the start
    devRows,                 \* rows the record has acquired
    \* ---- the clock
    now,
    \* ---- history (read by the properties only)
    notified,                \* "new data" notifications delivered to phase_cb since the start
    becamePending,           \* times new_data went from False to True since the start
    idleDelivered,           \* when execute_cb received IDLE after the start command: "no", "before_started", "started"
    stallAt,                 \* clock value at which the stall check marked the status failed, None if never
    phaseAt,                 \* clock value at the last call of phase_cb of this run, None if never
    \* ---- run_blocker_in_plan
    b_poll,                  \* argument _poll_s_
    b_timeout,               \* argument _timeout_s_ (None or Some(t))
    blocker,                 \* what the blocking function does: "returns", "raises", "never"
    b_pc,                    \* the statement the plan is at
    b_status,                \* the Status: [done, success]
    t_expire,                \* local t_expire
    thr,                     \* the thread of _internal
    b_now,                   \* the clock
    b_sleeps,                \* history: sleeps yielded since the last check of status.done
    b_observed,              \* history: line 112 found the deadline expired
    b_timedOut,              \* history: line 113 ran on a status that was not done
    thrReturnedFirst,        \* history: line 101 returned before line 112 found the deadline expired
    thrFinishedFirst         \* history: line 102 ran before line 112 found the deadline expired

scanArgs == << poll_delay_s, phase_timeout_s, running_stream, final_array_stream,
               device_settings_stream >>
scanPlan == << pc, started, new_data, inactive_deadline, sscan_status, rowbuf,
               records, error >>
scanDrv  == << subsExec, subsPhase, cbpc >>
scanDev  == << devExec, devPhases, devRows >>
scanHist == << notified, becamePending, idleDelivered, stallAt, phaseAt >>
scanVars == << scanArgs, scanPlan, scanDrv, scanDev, scanHist, now >>

blockerHist == << b_sleeps, b_observed, b_timedOut, thrReturnedFirst, thrFinishedFirst >>
blockerVars == << b_poll, b_timeout, blocker, b_pc, b_status, t_expire, thr, b_now,
                 blockerHist >>

VARIABLES
    \* ---- TuneAxis: the call and the instance
    t_req,                   \* the call: [call, width, num, step_factor, pass_max, snake, md_pass_max]
    self_snake,              \* self.snake
    peak_choice,             \* self.peak_choice
    tune_ok,                 \* self.tune_ok
    center,                  \* self.center, None or Some(position)
    stats,                   \* self.stats, the accumulators of the passes
    peaks,                   \* self.peaks, None or Some(accumulator)
    axis_position,           \* self.axis.position
    \* ---- TuneAxis: the plans
    t_pc,                    \* position in tune / multi_pass_tune
    t_error,                 \* "none" or the exception that left the plan
    mp,                      \* locals of multi_pass_tune
    tp,                      \* locals of tune
    tlog,                    \* messages the call has yielded to the RunEngine, in order
    results,                 \* 'PeakStats' records the current pass has emitted
    \* ---- history (read by the properties only)
    passes,                  \* one entry per completed pass of the call
    started_widths,          \* the width of every pass the call has started
    probe                    \* what a direct call of peak_detected() returned

tunerReq == << t_req, self_snake, peak_choice >>
tunerVars == << tunerReq, tune_ok, center, stats, peaks, axis_position, t_pc, t_error,
               mp, tp, tlog, results, passes, started_widths, probe >>

VARIABLES
    \* ---- a second sscan_1D run in the same process
    other                    \* [active, phase_timeout_s, notified]: what the second run has done

otherVars == << other >>

VARIABLES
    \* ---- connect_pvlist
    c_wait,                  \* argument wait
    c_timeout,               \* argument timeout
    c_poll,                  \* argument poll_interval, after line 145 the local
    c_pc,                    \* position in connect_pvlist
    c_now,                   \* time.time() since the call
    connected,               \* o.connected of the EpicsSignal of each PV
    times_up,                \* local times_up
    waiting,                 \* local waiting
    c_result,                \* the PVs of the returned dictionary
    c_error,                 \* "none" or the exception raised
    \* ---- history (read by the properties only)
    connectedAt,             \* when each PV became connected
    returnedAt               \* when connect_pvlist returned, None before

connectVars == << c_wait, c_timeout, c_poll, c_pc, c_now, connected, times_up, waiting,
                 c_result, c_error, connectedAt, returnedAt >>

VARIABLES
    \* ---- snapshot
    obj_list,                \* argument obj_list: what each object is
    objects,                 \* local objects: places in obj_list of the objects kept
    s_pc,                    \* position in snapshot
    s_i,                     \* place in the list the running for loop is at
    s_msgs,                  \* the messages the plan has yielded, in order
    s_error                  \* "none" or the exception raised

snapVars == << obj_list, objects, s_pc, s_i, s_msgs, s_error >>

vars == << scanVars, blockerVars, tunerVars, otherVars, connectVars, snapVars >>

\* what the statements of one plan leave alone: the state of the other plans
notScan == << blockerVars, tunerVars, otherVars, connectVars, snapVars >>
notBlocker == << scanVars, tunerVars, otherVars, connectVars, snapVars >>
notTuner == << scanVars, blockerVars, otherVars, connectVars, snapVars >>
notConnect == << scanVars, blockerVars, tunerVars, otherVars, snapVars >>
notSnap == << scanVars, blockerVars, tunerVars, otherVars, connectVars >>

\* ------------------------------------------------------ Completion Signal

NewStatus == [done |-> FALSE, success |-> FALSE]

\* status._finished(success=...): the terminal transition; no effect on a
\* status that is already done.
Finished(st, success) ==
    IF st.done THEN st ELSE [done |-> TRUE, success |-> success]

\* ---------------------------------------------------------------- sscan_1D

\* the assertion without its upper limit
PollDelayOK_noUpper(p) == 0 <= p

\* the assertion with the range (0, 0.1]
PollDelayOK_open(p) == 0 < p /\ p <= PollMax

\* assert 0 <= poll_delay_s <= 0.1
PollDelayOK(p) == 0 <= p /\ p <= PollMax

\* time.time() + phase_timeout_s
Deadline(t) == t + Val(phase_timeout_s)

Rec(kind, stream, data) == [kind |-> kind, stream |-> stream, data |-> data]

\* execute_cb without the test of started
ExecuteCbFires_anyTime(value) == value = IdleValue

\* execute_cb: "if started and value in (0, 'IDLE')"
ExecuteCbFires(value) == started /\ value = IdleValue

\* phase_cb leaving the deadline where it is
PhaseCbDeadline_keeps == inactive_deadline

\* phase_cb: "if phase_timeout_s is not None: inactive_deadline = time.time() + phase_timeout_s"
PhaseCbDeadline ==
    IF phase_timeout_s # None THEN Deadline(now) ELSE inactive_deadline

\* phase_cb: "if value in (15, 'RECORD SCALAR DATA'): new_data = True"
PhaseCbNewData(value) ==
    IF value = NewDataPhase THEN TRUE ELSE new_data

\* "while not sscan_status.done or new_data"
LoopCondition == ~sscan_status.done \/ new_data

\* the test of line 410 without new_data
EmitCondition_anyTurn == running_stream # None

\* "if new_data and running_stream is not None"
EmitCondition == new_data /\ running_stream # None

\* the stall check without the test for None
StallExpired_noneTested == now > inactive_deadline

\* the stall check with the timeout added a second time to the deadline
StallExpired_timeoutTwice ==
    phase_timeout_s # None /\ now > inactive_deadline + Val(phase_timeout_s)

\* "if phase_timeout_s is not None and time.time() > inactive_deadline"
StallExpired == phase_timeout_s # None /\ now > inactive_deadline

ScanInit ==
    /\ poll_delay_s \in PollChoices
    /\ phase_timeout_s \in TimeoutChoices
    /\ running_stream \in {None, Some("primary")}
    /\ final_array_stream \in {None, Some("final")}
    /\ device_settings_stream \in {None, Some("settings")}
    /\ pc = "init"
    /\ started = FALSE
    /\ new_data = FALSE
    /\ inactive_deadline = 0
    /\ sscan_status = NewStatus
    /\ rowbuf = 0
    /\ records = << >>
    /\ error = ""
    /\ subsExec = FALSE
    /\ subsPhase = FALSE
    /\ cbpc = "none"
    /\ devExec = IdleValue
    /\ devPhases = 0
    /\ devRows = 0
    /\ now = 0
    /\ notified = 0
    /\ becamePending = 0
    /\ idleDelivered = "no"
    /\ stallAt = None
    /\ phaseAt = None

\* ---- the plan, statement by statement

\* lines 364-375: the assertion, then the locals and the two globals
PlanEnter ==
    /\ pc = "init"
    /\ IF PollDelayOK(poll_delay_s)
       THEN /\ pc' = "sub_exec"
            /\ started' = FALSE
            /\ new_data' = FALSE
            /\ sscan_status' = NewStatus
            /\ inactive_deadline' =
                   IF phase_timeout_s # None THEN Deadline(now) ELSE now
            /\ error' = error
       ELSE /\ pc' = "raised"
            /\ error' = "AssertionError"
            /\ UNCHANGED << started, new_data, sscan_status, inactive_deadline >>
    /\ UNCHANGED << notScan, scanArgs, rowbuf, records, scanDrv, scanDev, scanHist, now >>

\* line 398: sscan.execute_scan.subscribe(execute_cb); the subscription calls
\* execute_cb at once with the current value of EXSC
PlanSubscribeExecute ==
    /\ pc = "sub_exec"
    /\ pc' = "sub_phase"
    /\ IF ExecuteCbFires(devExec)
       THEN /\ sscan_status' = Finished(sscan_status, TRUE)
            /\ subsExec' = FALSE
            /\ subsPhase' = FALSE
       ELSE /\ subsExec' = TRUE
            /\ UNCHANGED << sscan_status, subsPhase >>
    /\ UNCHANGED << notScan, scanArgs, started, new_data, inactive_deadline, rowbuf, records,
                    error, cbpc, scanDev, scanHist, now >>

\* line 400: sscan.scan_phase.subscribe(phase_cb); the subscription calls
\* phase_cb at once with the current value of FAZE, IDLE before the scan starts
PlanSubscribePhase ==
    /\ pc = "sub_phase"
    /\ pc' = "open_run"
    /\ subsPhase' = TRUE
    /\ inactive_deadline' = PhaseCbDeadline
    /\ new_data' = PhaseCbNewData(IdleValue)
    /\ phaseAt' = Some(now)
    /\ UNCHANGED << notScan, scanArgs, started, sscan_status, rowbuf, records, error,
                    subsExec, cbpc, scanDev, notified, becamePending, idleDelivered,
                    stallAt, now >>

\* line 404: yield from bps.open_run(md)
PlanOpenRun ==
    /\ pc = "open_run"
    /\ pc' = "start"
    /\ records' = Append(records, Rec("open_run", "", 0))
    /\ UNCHANGED << notScan, scanArgs, started, new_data, inactive_deadline, sscan_status,
                    rowbuf, error, scanDrv, scanDev, scanHist, now >>

\* line 405: yield from bps.mv(sscan.execute_scan, 1): the put reaches the
\* record, which starts scanning
PlanStart ==
    /\ pc = "start"
    /\ pc' = "set_started"
    /\ devExec' = 1
    /\ UNCHANGED << notScan, scanArgs, started, new_data, inactive_deadline, sscan_status,
                    rowbuf, records, error, scanDrv, devPhases, devRows, scanHist, now >>

\* line 406: started = True
PlanSetStarted ==
    /\ pc = "set_started"
    /\ pc' = "loop"
    /\ started' = TRUE
    /\ UNCHANGED << notScan, scanArgs, new_data, inactive_deadline, sscan_status, rowbuf,
                    records, error, scanDrv, scanDev, scanHist, now >>

\* line 409: while not sscan_status.done or new_data
PlanLoop ==
    /\ pc = "loop"
    /\ pc' = IF LoopCondition THEN "body_if" ELSE "final"
    /\ UNCHANGED << notScan, scanArgs, started, new_data, inactive_deadline, sscan_status,
                    rowbuf, records, error, scanDrv, scanDev, scanHist, now >>

\* lines 410-411: if new_data and running_stream is not None: bps.create(running_stream)
PlanBodyIf ==
    /\ pc = "body_if"
    /\ pc' = IF EmitCondition THEN "emit_read" ELSE "clear"
    /\ UNCHANGED << notScan, scanArgs, started, new_data, inactive_deadline, sscan_status,
                    rowbuf, records, error, scanDrv, scanDev, scanHist, now >>

\* lines 412-413: bps.read(obj) of every channel: the row the record holds now
PlanEmitRead ==
    /\ pc = "emit_read"
    /\ pc' = "emit_save"
    /\ rowbuf' = devRows
    /\ UNCHANGED << notScan, scanArgs, started, new_data, inactive_deadline, sscan_status,
                    records, error, scanDrv, scanDev, scanHist, now >>

\* line 414: bps.save(): the row is emitted
PlanEmitSave ==
    /\ pc = "emit_save"
    /\ pc' = "clear"
    /\ records' = Append(records, Rec("row", Val(running_stream), rowbuf))
    /\ UNCHANGED << notScan, scanArgs, started, new_data, inactive_deadline, sscan_status,
                    rowbuf, error, scanDrv, scanDev, scanHist, now >>

\* line 415: new_data = False
PlanClear ==
    /\ pc = "clear"
    /\ pc' = "stall_check"
    /\ new_data' = FALSE
    /\ UNCHANGED << notScan, scanArgs, started, inactive_deadline, sscan_status, rowbuf,
                    records, error, scanDrv, scanDev, scanHist, now >>

\* the stall check assigning the two fields itself instead of calling _finished
PlanStallCheck_assigns ==
    /\ pc = "stall_check"
    /\ pc' = "sleep"
    /\ IF StallExpired
       THEN /\ sscan_status' = [done |-> TRUE, success |-> FALSE]
            /\ stallAt' = IF sscan_status.done THEN stallAt ELSE Some(now)
       ELSE UNCHANGED << sscan_status, stallAt >>
    /\ UNCHANGED << notScan, scanArgs, started, new_data, inactive_deadline, rowbuf, records,
                    error, scanDrv, scanDev, notified, becamePending, idleDelivered, phaseAt,
                    now >>

\* the stall check raising instead of marking the status
PlanStallCheck_raises ==
    /\ pc = "stall_check"
    /\ IF StallExpired /\ ~sscan_status.done
       THEN /\ pc' = "raised"
            /\ error' = "TimeoutError"
       ELSE /\ pc' = "sleep"
            /\ error' = error
    /\ UNCHANGED << notScan, scanArgs, started, new_data, inactive_deadline, sscan_status,
                    rowbuf, records, scanDrv, scanDev, scanHist, now >>

\* lines 416-419: the stall check
PlanStallCheck ==
    /\ pc = "stall_check"
    /\ pc' = "sleep"
    /\ IF StallExpired
       THEN /\ sscan_status' = Finished(sscan_status, FALSE)
            /\ stallAt' = IF sscan_status.done THEN stallAt ELSE Some(now)
       ELSE UNCHANGED << sscan_status, stallAt >>
    /\ UNCHANGED << notScan, scanArgs, started, new_data, inactive_deadline, rowbuf, records,
                    error, scanDrv, scanDev, notified, becamePending, idleDelivered, phaseAt,
                    now >>

\* line 420: yield from bps.sleep(poll_delay_s)
PlanSleep ==
    /\ pc = "sleep"
    /\ pc' = "loop"
    /\ now' = Min(now + poll_delay_s, MaxTime)
    /\ UNCHANGED << notScan, scanArgs, started, new_data, inactive_deadline, sscan_status,
                    rowbuf, records, error, scanDrv, scanDev, scanHist >>

\* the final arrays emitted whether or not a stream is named for them
PlanFinalArrays_always ==
    /\ pc = "final"
    /\ pc' = "settings"
    /\ records' = Append(records, Rec("arrays", "final", devRows))
    /\ UNCHANGED << notScan, scanArgs, started, new_data, inactive_deadline, sscan_status,
                    rowbuf, error, scanDrv, scanDev, scanHist, now >>

\* lines 423-432: the final arrays, one record
PlanFinalArrays ==
    /\ pc = "final"
    /\ pc' = "settings"
    /\ records' = IF final_array_stream # None
                  THEN Append(records, Rec("arrays", Val(final_array_stream), devRows))
                  ELSE records
    /\ UNCHANGED << notScan, scanArgs, started, new_data, inactive_deadline, sscan_status,
                    rowbuf, error, scanDrv, scanDev, scanHist, now >>

\* lines 435-438: the settings of the record, one record
PlanSettings ==
    /\ pc = "settings"
    /\ pc' = "close_run"
    /\ records' = IF device_settings_stream # None
                  THEN Append(records, Rec("settings", Val(device_settings_stream), 0))
                  ELSE records
    /\ UNCHANGED << notScan, scanArgs, started, new_data, inactive_deadline, sscan_status,
                    rowbuf, error, scanDrv, scanDev, scanHist, now >>

\* lines 440-442: yield from bps.close_run(); return sscan_status
PlanCloseRun ==
    /\ pc = "close_run"
    /\ pc' = "returned"
    /\ records' = Append(records, Rec("close_run", "", 0))
    /\ UNCHANGED << notScan, scanArgs, started, new_data, inactive_deadline, sscan_status,
                    rowbuf, error, scanDrv, scanDev, scanHist, now >>

\* A message of the plan fails in the RunEngine: open_run (line 404), the put
\* of the start command (line 405) or the save of a row (line 414).  Nothing in
\* sscan_1D catches it: the generator ends with the exception.
FaultPoints == {"open_run", "start", "emit_save"}

PlanFault ==
    /\ pc \in FaultPoints
    /\ pc' = "raised"
    /\ error' = "fault"
    /\ UNCHANGED << notScan, scanArgs, started, new_data, inactive_deadline, sscan_status,
                    rowbuf, records, scanDrv, scanDev, scanHist, now >>

\* ---- the sscan record and the driver's context

\* FAZE changes while the record scans; phase_cb runs if it is subscribed
DevPhase(value) ==
    /\ devExec = 1
    /\ cbpc = "none"
    /\ devPhases < MaxPhase
    /\ devPhases' = devPhases + 1
    /\ devRows' = IF value = NewDataPhase THEN devRows + 1 ELSE devRows
    /\ IF subsPhase
       THEN /\ inactive_deadline' = PhaseCbDeadline
            /\ new_data' = PhaseCbNewData(value)
            /\ notified' = IF value = NewDataPhase THEN notified + 1 ELSE notified
            /\ becamePending' = IF ~new_data /\ PhaseCbNewData(value)
                                THEN becamePending + 1 ELSE becamePending
            /\ phaseAt' = Some(now)
       ELSE UNCHANGED << inactive_deadline, new_data, notified, becamePending, phaseAt >>
    /\ UNCHANGED << notScan, scanArgs, pc, started, sscan_status, rowbuf, records, error,
                    scanDrv, devExec, idleDelivered, stallAt, now >>

\* EXSC returns to IDLE; execute_cb runs if it is subscribed (lines 379-380)
DevIdle ==
    /\ devExec = 1
    /\ cbpc = "none"
    /\ devExec' = IdleValue
    /\ IF subsExec
       THEN /\ idleDelivered' = IF started THEN "started" ELSE "before_started"
            /\ IF ExecuteCbFires(IdleValue)
               THEN /\ sscan_status' = Finished(sscan_status, TRUE)
                    /\ cbpc' = "unsubscribe"
               ELSE UNCHANGED << sscan_status, cbpc >>
       ELSE UNCHANGED << idleDelivered, sscan_status, cbpc >>
    /\ UNCHANGED << notScan, scanArgs, pc, started, new_data, inactive_deadline, rowbuf,
                    records, error, subsExec, subsPhase, devPhases, devRows,
                    notified, becamePending, stallAt, phaseAt, now >>

\* execute_cb, lines 381-382: unsubscribe_all() of both signals
ExecuteCbUnsubscribe ==
    /\ cbpc = "unsubscribe"
    /\ cbpc' = "none"
    /\ subsExec' = FALSE
    /\ subsPhase' = FALSE
    /\ UNCHANGED << notScan, scanArgs, scanPlan, scanDev, scanHist, now >>

\* ---- a second sscan_1D run: its statements that touch the module globals
\* new_data and inactive_deadline (line 364: "global new_data, inactive_deadline")

OtherInit ==
    other \in [active : {FALSE}, phase_timeout_s : TimeoutChoices, notified : {0}]

\* the second run is never called
OtherParked == other = [active |-> FALSE, phase_timeout_s |-> None, notified |-> 0]

\* lines 372-375 and 398-400 of the second run, resumed by the RunEngine
\* while the first plan is suspended in its sleep
OtherEnter ==
    /\ ~other.active
    /\ pc = "loop"
    /\ other' = [other EXCEPT !.active = TRUE]
    /\ new_data' = FALSE
    /\ inactive_deadline' = IF other.phase_timeout_s # None
                            THEN now + Val(other.phase_timeout_s)
                            ELSE now
    /\ UNCHANGED << blockerVars, tunerVars, connectVars, snapVars, scanArgs, pc, started, sscan_status, rowbuf,
                    records, error, scanDrv, scanDev, scanHist, now >>

\* phase_cb of the second run (lines 386-390), called for its own record
OtherPhaseCb(value) ==
    /\ other.active
    /\ cbpc = "none"
    /\ other.notified < MaxPhase
    /\ other' = [other EXCEPT !.notified = other.notified + 1]
    /\ inactive_deadline' = IF other.phase_timeout_s # None
                            THEN now + Val(other.phase_timeout_s)
                            ELSE inactive_deadline
    /\ new_data' = PhaseCbNewData(value)
    /\ UNCHANGED << blockerVars, tunerVars, connectVars, snapVars, scanArgs, pc, started, sscan_status, rowbuf,
                    records, error, scanDrv, scanDev, scanHist, now >>

\* line 415 of the second run, resumed while the first plan is suspended in
\* its sleep
OtherClear ==
    /\ other.active
    /\ pc = "loop"
    /\ new_data
    /\ new_data' = FALSE
    /\ UNCHANGED << blockerVars, tunerVars, connectVars, snapVars, otherVars, scanArgs, pc, started,
                    inactive_deadline, sscan_status, rowbuf, records, error, scanDrv,
                    scanDev, scanHist, now >>

OtherNext ==
    \/ OtherEnter
    \/ \E value \in PhaseValues : OtherPhaseCb(value)
    \/ OtherClear

ScanNext ==
    \/ PlanEnter
    \/ PlanSubscribeExecute
    \/ PlanSubscribePhase
    \/ PlanOpenRun
    \/ PlanStart
    \/ PlanSetStarted
    \/ PlanLoop
    \/ PlanBodyIf
    \/ PlanEmitRead
    \/ PlanEmitSave
    \/ PlanClear
    \/ PlanStallCheck
    \/ PlanSleep
    \/ PlanFinalArrays
    \/ PlanSettings
    \/ PlanCloseRun
    \/ PlanFault
    \/ \E value \in PhaseValues : DevPhase(value)
    \/ DevIdle
    \/ ExecuteCbUnsubscribe

\* The RunEngine keeps resuming the generator, and a callback that has begun
\* runs to its end: the statements of the plan and of execute_cb are taken
\* for as long as they are enabled.  A fault and the record's notifications
\* may or may not happen.
PlanProgress ==
    \/ PlanEnter
    \/ PlanSubscribeExecute
    \/ PlanSubscribePhase
    \/ PlanOpenRun
    \/ PlanStart
    \/ PlanSetStarted
    \/ PlanLoop
    \/ PlanBodyIf
    \/ PlanEmitRead
    \/ PlanEmitSave
    \/ PlanClear
    \/ PlanStallCheck
    \/ PlanSleep
    \/ PlanFinalArrays
    \/ PlanSettings
    \/ PlanCloseRun

\* ------------------------------------------------------ run_blocker_in_plan

\* the timeout test against a deadline taken anew from the clock at each turn
BlockerExpired_movingDeadline == b_timeout # None /\ b_now > b_now + Val(b_timeout)

\* lines 111-112: "if _timeout_s_ is not None: if time.time() > t_expire"
BlockerExpired == b_timeout # None /\ b_now > t_expire

BlockerInit ==
    /\ b_poll \in {DefaultPoll, 50000}
    /\ b_timeout \in {None, Some(150000)}
    /\ blocker \in {"returns", "raises", "never"}
    /\ b_pc = "b_init"
    /\ b_status = NewStatus
    /\ t_expire = 0
    /\ thr = "unborn"
    /\ b_now = 0
    /\ b_sleeps = 0
    /\ b_observed = FALSE
    /\ b_timedOut = FALSE
    /\ thrReturnedFirst = FALSE
    /\ thrFinishedFirst = FALSE

\* lines 97-105: status = Status(); t_expire = time.time() + _timeout_s_
BlockerEnter ==
    /\ b_pc = "b_init"
    /\ b_pc' = "b_spawn"
    /\ b_status' = NewStatus
    /\ t_expire' = IF b_timeout # None THEN b_now + Val(b_timeout) ELSE t_expire
    /\ UNCHANGED << notBlocker, b_poll, b_timeout, blocker, thr, b_now, blockerHist >>

\* line 108: _internal(blocker, ...): run_in_thread starts the thread (lines 62-64)
BlockerSpawn ==
    /\ b_pc = "b_spawn"
    /\ b_pc' = "b_while"
    /\ thr' = "running"
    /\ UNCHANGED << notBlocker, b_poll, b_timeout, blocker, b_status, t_expire, b_now,
                    blockerHist >>

\* line 110: while not status.done
BlockerWhile ==
    /\ b_pc = "b_while"
    /\ b_pc' = IF ~b_status.done THEN "b_timeout" ELSE "b_returned"
    /\ b_sleeps' = 0
    /\ UNCHANGED << notBlocker, b_poll, b_timeout, blocker, b_status, t_expire, thr,
                    b_now, b_observed, b_timedOut, thrReturnedFirst, thrFinishedFirst >>

\* the timeout check that breaks out of the loop without marking the status
BlockerTimeoutCheck_noMark ==
    /\ b_pc = "b_timeout"
    /\ IF BlockerExpired
       THEN /\ b_observed' = TRUE
            /\ b_timedOut' = (b_timedOut \/ ~b_status.done)
            /\ b_pc' = "b_returned"
       ELSE /\ b_pc' = "b_sleep"
            /\ UNCHANGED << b_observed, b_timedOut >>
    /\ UNCHANGED << notBlocker, b_poll, b_timeout, blocker, b_status, t_expire, thr, b_now,
                    b_sleeps, thrReturnedFirst, thrFinishedFirst >>

\* lines 111-114: the timeout check; on expiry status._finished(success=False) and break
BlockerTimeoutCheck ==
    /\ b_pc = "b_timeout"
    /\ IF BlockerExpired
       THEN /\ b_status' = Finished(b_status, FALSE)
            /\ b_observed' = TRUE
            /\ b_timedOut' = (b_timedOut \/ ~b_status.done)
            /\ b_pc' = "b_returned"
       ELSE /\ b_pc' = "b_sleep"
            /\ UNCHANGED << b_status, b_observed, b_timedOut >>
    /\ UNCHANGED << notBlocker, b_poll, b_timeout, blocker, t_expire, thr, b_now,
                    b_sleeps, thrReturnedFirst, thrFinishedFirst >>

\* the wait done as thread.join(_poll_s_) on a thread that is joined for good
BlockerSleep_join ==
    /\ b_pc = "b_sleep"
    /\ thr \notin {"running", "returned"}
    /\ b_pc' = "b_while"
    /\ b_now' = Min(b_now + b_poll, MaxBlockerTime)
    /\ b_sleeps' = b_sleeps + 1
    /\ UNCHANGED << notBlocker, b_poll, b_timeout, blocker, b_status, t_expire, thr,
                    b_observed, b_timedOut, thrReturnedFirst, thrFinishedFirst >>

\* line 115: yield from bps.sleep(_poll_s_)
BlockerSleep ==
    /\ b_pc = "b_sleep"
    /\ b_pc' = "b_while"
    /\ b_now' = Min(b_now + b_poll, MaxBlockerTime)
    /\ b_sleeps' = b_sleeps + 1
    /\ UNCHANGED << notBlocker, b_poll, b_timeout, blocker, b_status, t_expire, thr,
                    b_observed, b_timedOut, thrReturnedFirst, thrFinishedFirst >>

\* line 101: blocking_function(*args, **kwargs) returns
ThreadReturn ==
    /\ thr = "running"
    /\ blocker = "returns"
    /\ thr' = "returned"
    /\ thrReturnedFirst' = ~b_observed
    /\ UNCHANGED << notBlocker, b_poll, b_timeout, blocker, b_pc, b_status, t_expire,
                    b_now, b_sleeps, b_observed, b_timedOut, thrFinishedFirst >>

\* line 101: blocking_function(*args, **kwargs) raises: the thread ends there
ThreadRaise ==
    /\ thr = "running"
    /\ blocker = "raises"
    /\ thr' = "raised"
    /\ UNCHANGED << notBlocker, b_poll, b_timeout, blocker, b_pc, b_status, t_expire,
                    b_now, blockerHist >>

\* line 102: status._finished(success=True, done=True)
ThreadFinish ==
    /\ thr = "returned"
    /\ thr' = "finished"
    /\ b_status' = Finished(b_status, TRUE)
    /\ thrFinishedFirst' = ~b_observed
    /\ UNCHANGED << notBlocker, b_poll, b_timeout, blocker, b_pc, t_expire, b_now,
                    b_sleeps, b_observed, b_timedOut, thrReturnedFirst >>

BlockerPlan ==
    \/ BlockerEnter
    \/ BlockerSpawn
    \/ BlockerWhile
    \/ BlockerTimeoutCheck
    \/ BlockerSleep

BlockerThread ==
    \/ ThreadReturn
    \/ ThreadRaise
    \/ ThreadFinish

BlockerNext == BlockerPlan \/ BlockerThread

\* ---------------------------------------------------------------- TuneAxis

\* Python's "x or default" for a numeric argument: None and 0 are falsy
OrNumber(x, default) == IF x = None \/ Val(x) = 0 THEN default ELSE Val(x)

\* Python's "x or default" for a boolean argument: None and False are falsy
OrBool(x, default) == IF x = None \/ Val(x) = FALSE THEN default ELSE Val(x)

\* PeakStats(x=..., y=...): an accumulator that has collected nothing
NewPeakStats ==
    [n |-> 0, lo |-> 0, hi |-> 0, max |-> None, min |-> None, cen |-> None, com |-> None]

\* the accumulator receives the event of one trigger_and_read
Collect(pk, y) ==
    [pk EXCEPT !.n = pk.n + 1,
               !.lo = IF pk.n = 0 \/ y < pk.lo THEN y ELSE pk.lo,
               !.hi = IF pk.n = 0 \/ y > pk.hi THEN y ELSE pk.hi]

\* self.peaks.compute(): the statistics of the collected events; cen and com
\* are the values the accumulator derives from them
Compute(pk, cen, com) ==
    IF pk.n = 0 THEN pk
    ELSE [pk EXCEPT !.max = Some(pk.hi), !.min = Some(pk.lo),
                    !.cen = Some(cen), !.com = Some(com)]

\* line 712 with the comparison the docstring of tune gives (line 507)
PeakDetected_atLeast(pk) ==
    IF pk = None THEN FALSE
    ELSE IF Val(pk).max = None THEN FALSE
    ELSE Val(Val(pk).max) >= PeakRatio * Val(Val(pk).min)

\* peak_detected, lines 704-712, on the accumulator after compute()
PeakDetected(pk) ==
    IF pk = None THEN FALSE
    ELSE IF Val(pk).max = None THEN FALSE
    ELSE Val(Val(pk).max) > PeakRatio * Val(Val(pk).min)

\* lines 531-532
Start(t) == t.initial_position - t.width \div 2
Finish(t) == t.initial_position + t.width \div 2

\* line 590: np.linspace(start, finish, num)[i]
Linspace(start, finish, num, i) ==
    IF num = 1 THEN start ELSE start + (i * (finish - start)) \div (num - 1)

Msg(ev, x) == [ev |-> ev, x |-> x]

\* an instance that has tuned before: one successful pass in its history
UsedPeaks ==
    [n |-> 2, lo |-> 1, hi |-> 10, max |-> Some(10), min |-> Some(1),
     cen |-> Some(3 * DefaultWidth), com |-> Some(3 * DefaultWidth)]

TuneRequests ==
    [call : {"tune"}, width : {None, Some(0), Some(2 * DefaultWidth)},
     num : {None, Some(3)}, step_factor : {None}, pass_max : {None},
     snake : {None}, md_pass_max : BOOLEAN]

MultiRequests ==
    [call : {"multi"}, width : {None, Some(-2 * DefaultWidth)},
     num : {Some(2)}, step_factor : {None, Some(2)}, pass_max : {Some(2)},
     snake : {None, Some(TRUE), Some(FALSE)}, md_pass_max : {FALSE}]

\* multi_pass_tune() with every argument left out
DefaultRequest ==
    [call |-> "multi", width |-> None, num |-> None, step_factor |-> None,
     pass_max |-> None, snake |-> None, md_pass_max |-> FALSE]

\* TuneAxis.__init__, lines 483-499, or an instance that has tuned before;
\* the caller may have set peak_choice and snake
TunerInit ==
    /\ t_req \in TuneRequests \cup MultiRequests \cup {DefaultRequest}
    /\ self_snake \in BOOLEAN
    /\ peak_choice \in PeakChoices \cup {"fwhm"}
    /\ (t_req.call = "tune" \/ t_req = DefaultRequest) => self_snake = TRUE
    /\ t_req = DefaultRequest => peak_choice = "cen"
    /\ \E used \in BOOLEAN :
          /\ tune_ok = used
          /\ center = IF used THEN Some(3 * DefaultWidth) ELSE None
          /\ stats = IF used THEN << UsedPeaks >> ELSE << >>
          /\ peaks = IF used THEN Some(UsedPeaks) ELSE None
          /\ axis_position = IF used THEN 3 * DefaultWidth ELSE 0
          /\ (t_req = DefaultRequest => ~used)
    /\ t_pc = "idle"
    /\ t_error = "none"
    /\ mp = [width |-> 0, num |-> 0, step_factor |-> 0, snake |-> FALSE,
             pass_max |-> 0, pass_number |-> 0]
    /\ tp = [width |-> 0, num |-> 0, initial_position |-> 0, final_position |-> Some(0),
             idx |-> 0, in_multi |-> FALSE]
    /\ tlog = << >>
    /\ results = << >>
    /\ passes = << >>
    /\ started_widths = << >>
    /\ probe = "unasked"

\* tune with the validation of peak_choice after line 533
TuneStart_lateCheck(width_arg, num_arg, md_pass_max, in_multi) ==
    LET width == OrNumber(width_arg, DefaultWidth)
        num == OrNumber(num_arg, DefaultNum)
    IN  /\ tune_ok' = FALSE
        /\ IF peak_choice \notin PeakChoices
           THEN /\ t_pc' = "raised"
                /\ t_error' = "ValueError"
                /\ UNCHANGED << tp, stats, peaks, tlog, results, started_widths >>
           ELSE /\ tp' = [width |-> width, num |-> num,
                          initial_position |-> axis_position,
                          final_position |-> Some(axis_position),
                          idx |-> 0, in_multi |-> in_multi]
                /\ stats' = IF md_pass_max THEN stats ELSE << >>
                /\ peaks' = Some(NewPeakStats)
                /\ tlog' = Append(tlog, Msg("open_run", 0))
                /\ results' = << >>
                /\ started_widths' = Append(started_widths, width)
                /\ t_pc' = "move"
                /\ t_error' = t_error
        /\ UNCHANGED << notTuner, tunerReq, center, axis_position, passes, probe >>

\* tune without the reset of tune_ok (line 533)
TuneStart_keepsTuneOk(width_arg, num_arg, md_pass_max, in_multi) ==
    LET width == OrNumber(width_arg, DefaultWidth)
        num == OrNumber(num_arg, DefaultNum)
    IN  /\ IF peak_choice \notin PeakChoices
           THEN /\ t_pc' = "raised"
                /\ t_error' = "ValueError"
                /\ UNCHANGED << tp, stats, peaks, tlog, results, started_widths >>
           ELSE /\ tp' = [width |-> width, num |-> num,
                          initial_position |-> axis_position,
                          final_position |-> Some(axis_position),
                          idx |-> 0, in_multi |-> in_multi]
                /\ stats' = IF md_pass_max THEN stats ELSE << >>
                /\ peaks' = Some(NewPeakStats)
                /\ tlog' = Append(tlog, Msg("open_run", 0))
                /\ results' = << >>
                /\ started_widths' = Append(started_widths, width)
                /\ t_pc' = "move"
                /\ t_error' = t_error
        /\ UNCHANGED << notTuner, tunerReq, tune_ok, center, axis_position, passes, probe >>

\* tune with the history emptied at the start of every pass
TuneStart_emptiesAlways(width_arg, num_arg, md_pass_max, in_multi) ==
    LET width == OrNumber(width_arg, DefaultWidth)
        num == OrNumber(num_arg, DefaultNum)
    IN  /\ IF peak_choice \notin PeakChoices
           THEN /\ t_pc' = "raised"
                /\ t_error' = "ValueError"
                /\ UNCHANGED << tp, tune_ok, stats, peaks, tlog, results, started_widths >>
           ELSE /\ tp' = [width |-> width, num |-> num,
                          initial_position |-> axis_position,
                          final_position |-> Some(axis_position),
                          idx |-> 0, in_multi |-> in_multi]
                /\ tune_ok' = FALSE
                /\ stats' = << >>
                /\ peaks' = Some(NewPeakStats)
                /\ tlog' = Append(tlog, Msg("open_run", 0))
                /\ results' = << >>
                /\ started_widths' = Append(started_widths, width)
                /\ t_pc' = "move"
                /\ t_error' = t_error
        /\ UNCHANGED << notTuner, tunerReq, center, axis_position, passes, probe >>

\* tune, lines 521-588: the arguments, the validation of peak_choice, the
\* range of the scan, the reset of tune_ok and of the history, the new
\* accumulator, and open_run as the first message of the pass
TuneStart(width_arg, num_arg, md_pass_max, in_multi) ==
    LET width == OrNumber(width_arg, DefaultWidth)
        num == OrNumber(num_arg, DefaultNum)
    IN  /\ IF peak_choice \notin PeakChoices
           THEN /\ t_pc' = "raised"
                /\ t_error' = "ValueError"
                /\ UNCHANGED << tp, tune_ok, stats, peaks, tlog, results, started_widths >>
           ELSE /\ tp' = [width |-> width, num |-> num,
                          initial_position |-> axis_position,
                          final_position |-> Some(axis_position),
                          idx |-> 0, in_multi |-> in_multi]
                /\ tune_ok' = FALSE
                /\ stats' = IF md_pass_max THEN stats ELSE << >>
                /\ peaks' = Some(NewPeakStats)
                /\ tlog' = Append(tlog, Msg("open_run", 0))
                /\ results' = << >>
                /\ started_widths' = Append(started_widths, width)
                /\ t_pc' = "move"
                /\ t_error' = t_error
        /\ UNCHANGED << notTuner, tunerReq, center, axis_position, passes, probe >>

\* RE(tuner.tune(width, num, md))
TuneCall ==
    /\ t_pc = "idle"
    /\ t_req.call = "tune"
    /\ TuneStart(t_req.width, t_req.num, t_req.md_pass_max, FALSE)
    /\ UNCHANGED mp

\* line 594: yield from bps.mv(self.axis, pos)
TuneMove ==
    /\ t_pc = "move"
    /\ t_pc' = "read"
    /\ axis_position' = Linspace(Start(tp), Finish(tp), tp.num, tp.idx)
    /\ tlog' = Append(tlog, Msg("mv", axis_position'))
    /\ UNCHANGED << notTuner, tunerReq, tune_ok, center, stats, peaks, t_error, mp, tp,
                    results, passes, started_widths, probe >>

\* line 594: the move fails and the exception leaves the plan
TuneFault ==
    /\ t_pc = "move"
    /\ t_pc' = "raised"
    /\ t_error' = "fault"
    /\ UNCHANGED << notTuner, tunerReq, tune_ok, center, stats, peaks, axis_position, mp, tp,
                    tlog, results, passes, started_widths, probe >>

\* line 595: yield from bps.trigger_and_read(signal_list); the accumulator is
\* subscribed (line 586) and collects the event
TuneRead ==
    /\ t_pc = "read"
    /\ \E y \in SampleValues : peaks' = Some(Collect(Val(peaks), y))
    /\ tlog' = Append(tlog, Msg("read", axis_position))
    /\ tp' = [tp EXCEPT !.idx = tp.idx + 1]
    /\ t_pc' = IF tp.idx + 1 < tp.num THEN "move" ELSE "evaluate"
    /\ UNCHANGED << notTuner, tunerReq, tune_ok, center, stats, axis_position, t_error, mp,
                    results, passes, started_widths, probe >>

\* what cen and com the accumulator may report for the pass: the two ends
\* of the scanned range, one each
Centroids(t) ==
    { [cen |-> Start(t), com |-> Finish(t)], [cen |-> Finish(t), com |-> Start(t)] }

\* the evaluation moving to the peak whether or not one was detected
TuneEvaluate_alwaysMoves ==
    /\ t_pc = "evaluate"
    /\ \E c \in Centroids(tp) :
          LET pk == Some(Compute(Val(peaks), c.cen, c.com))
              final_position == IF peak_choice = "cen" THEN Val(pk).cen
                                ELSE IF peak_choice = "com" THEN Val(pk).com
                                ELSE None
          IN  /\ peaks' = pk
              /\ tune_ok' = PeakDetected(pk)
              /\ tp' = [tp EXCEPT !.final_position = final_position]
              /\ center' = IF PeakDetected(pk) THEN final_position ELSE center
    /\ t_pc' = IF tune_ok' THEN "record" ELSE "final_move"
    /\ UNCHANGED << notTuner, tunerReq, stats, axis_position, t_error, mp, tlog, results,
                    passes, started_widths, probe >>

\* the evaluation reading cen whatever peak_choice says
TuneEvaluate_cenOnly ==
    /\ t_pc = "evaluate"
    /\ \E c \in Centroids(tp) :
          LET pk == Some(Compute(Val(peaks), c.cen, c.com))
              final_position == IF PeakDetected(pk) THEN Val(pk).cen
                                ELSE Some(tp.initial_position)
          IN  /\ peaks' = pk
              /\ tune_ok' = PeakDetected(pk)
              /\ tp' = [tp EXCEPT !.final_position = final_position]
              /\ center' = IF PeakDetected(pk) THEN final_position ELSE center
    /\ t_pc' = IF tune_ok' THEN "record" ELSE "final_move"
    /\ UNCHANGED << notTuner, tunerReq, stats, axis_position, t_error, mp, tlog, results,
                    passes, started_widths, probe >>

\* lines 597-606: final_position is the initial position unless a peak was
\* detected; then tune_ok is set and the peak of peak_choice becomes
\* final_position and self.center
TuneEvaluate ==
    /\ t_pc = "evaluate"
    /\ \E c \in Centroids(tp) :
          LET pk == Some(Compute(Val(peaks), c.cen, c.com))
              final_position == IF ~PeakDetected(pk) THEN Some(tp.initial_position)
                                ELSE IF peak_choice = "cen" THEN Val(pk).cen
                                ELSE IF peak_choice = "com" THEN Val(pk).com
                                ELSE None
          IN  /\ peaks' = pk
              /\ tune_ok' = PeakDetected(pk)
              /\ tp' = [tp EXCEPT !.final_position = final_position]
              /\ center' = IF PeakDetected(pk) THEN final_position ELSE center
    /\ t_pc' = IF tune_ok' THEN "record" ELSE "final_move"
    /\ UNCHANGED << notTuner, tunerReq, stats, axis_position, t_error, mp, tlog, results,
                    passes, started_widths, probe >>

\* lines 611-626: the Results device takes tune_ok, center, final_position
\* and initial_position; one 'PeakStats' record when results.tune_ok is set
TuneRecord ==
    /\ t_pc = "record"
    /\ t_pc' = "final_move"
    /\ results' = Append(results, [tune_ok |-> tune_ok, center |-> center,
                                   final_position |-> tp.final_position,
                                   initial_position |-> tp.initial_position])
    /\ tlog' = Append(tlog, Msg("record", 0))
    /\ UNCHANGED << notTuner, tunerReq, tune_ok, center, stats, peaks, axis_position, t_error,
                    mp, tp, passes, started_widths, probe >>

\* the final move left out when the axis is already at final_position
TuneFinalMove_skipsNoOp ==
    /\ t_pc = "final_move"
    /\ t_pc' = "close"
    /\ axis_position' = Val(tp.final_position)
    /\ tlog' = IF axis_position = Val(tp.final_position) THEN tlog
               ELSE Append(tlog, Msg("mv", axis_position'))
    /\ UNCHANGED << notTuner, tunerReq, tune_ok, center, stats, peaks, t_error, mp, tp,
                    results, passes, started_widths, probe >>

\* line 628: yield from bps.mv(self.axis, final_position)
TuneFinalMove ==
    /\ t_pc = "final_move"
    /\ t_pc' = "close"
    /\ axis_position' = Val(tp.final_position)
    /\ tlog' = Append(tlog, Msg("mv", axis_position'))
    /\ UNCHANGED << notTuner, tunerReq, tune_ok, center, stats, peaks, t_error, mp, tp,
                    results, passes, started_widths, probe >>

\* lines 629-634: the accumulator joins the history, the run is closed and
\* the pass returns to its caller
TuneClose ==
    /\ t_pc = "close"
    /\ t_pc' = IF tp.in_multi THEN "m_after" ELSE "returned"
    /\ stats' = Append(stats, Val(peaks))
    /\ tlog' = Append(tlog, Msg("close_run", 0))
    /\ passes' = Append(passes, [width |-> tp.width, ok |-> tune_ok,
                                 initial_position |-> tp.initial_position,
                                 final_position |-> tp.final_position,
                                 last_mv |-> tlog[Len(tlog)].x,
                                 axis_position |-> axis_position,
                                 records |-> Len(results)])
    /\ UNCHANGED << notTuner, tunerReq, tune_ok, center, peaks, axis_position, t_error, mp, tp,
                    results, started_widths, probe >>

\* RE(tuner.multi_pass_tune(...)), lines 668-674
MultiStart ==
    /\ t_pc = "idle"
    /\ t_req.call = "multi"
    /\ t_pc' = "m_loop"
    /\ mp' = [width |-> OrNumber(t_req.width, DefaultWidth),
              num |-> OrNumber(t_req.num, DefaultNum),
              step_factor |-> OrNumber(t_req.step_factor, DefaultStepFactor),
              snake |-> OrBool(t_req.snake, self_snake),
              pass_max |-> OrNumber(t_req.pass_max, DefaultPassMax),
              pass_number |-> 0]
    /\ stats' = << >>
    /\ UNCHANGED << notTuner, tunerReq, tune_ok, center, peaks, axis_position, t_error, tp,
                    tlog, results, passes, started_widths, probe >>

\* lines 677-684: the next pass, its metadata carrying 'pass_max', or the
\* end of the loop
MultiLoop ==
    /\ t_pc = "m_loop"
    /\ IF mp.pass_number < mp.pass_max
       THEN TuneStart(Some(mp.width), Some(mp.num), TRUE, TRUE)
       ELSE /\ t_pc' = "returned"
            /\ UNCHANGED << notTuner, tunerReq, tune_ok, center, stats, peaks, axis_position,
                            t_error, tp, tlog, results, passes, started_widths, probe >>
    /\ UNCHANGED mp

\* the loop going on after a failed pass
MultiAfter_noStop ==
    /\ t_pc = "m_after"
    /\ t_pc' = "m_loop"
    /\ mp' = [mp EXCEPT !.width = IF mp.snake THEN -(mp.width \div mp.step_factor)
                                  ELSE mp.width \div mp.step_factor,
                        !.pass_number = mp.pass_number + 1]
    /\ UNCHANGED << notTuner, tunerReq, tune_ok, center, stats, peaks, axis_position, t_error,
                    tp, tlog, results, passes, started_widths, probe >>

\* the loop narrowing the width without reversing it
MultiAfter_noReverse ==
    /\ t_pc = "m_after"
    /\ IF ~tune_ok
       THEN /\ t_pc' = "returned"
            /\ mp' = mp
       ELSE /\ t_pc' = "m_loop"
            /\ mp' = [mp EXCEPT !.width = mp.width \div mp.step_factor,
                                !.pass_number = mp.pass_number + 1]
    /\ UNCHANGED << notTuner, tunerReq, tune_ok, center, stats, peaks, axis_position, t_error,
                    tp, tlog, results, passes, started_widths, probe >>

\* lines 686-690: return after a failed pass; otherwise divide the width by
\* step_factor and, with snake, negate it
MultiAfter ==
    /\ t_pc = "m_after"
    /\ IF ~tune_ok
       THEN /\ t_pc' = "returned"
            /\ mp' = mp
       ELSE /\ t_pc' = "m_loop"
            /\ mp' = [mp EXCEPT !.width = IF mp.snake THEN -(mp.width \div mp.step_factor)
                                          ELSE mp.width \div mp.step_factor,
                                !.pass_number = mp.pass_number + 1]
    /\ UNCHANGED << notTuner, tunerReq, tune_ok, center, stats, peaks, axis_position, t_error,
                    tp, tlog, results, passes, started_widths, probe >>

\* tuner.peak_detected() called on an instance no plan is running on: before
\* the call of the plan, or after an exception has left it
TunerProbe ==
    /\ t_pc \in {"idle", "raised"}
    /\ t_pc' = "probed"
    /\ peaks' = IF peaks = None THEN None
                ELSE Some(Compute(Val(peaks), axis_position, axis_position))
    /\ probe' = IF PeakDetected(peaks') THEN "true" ELSE "false"
    /\ UNCHANGED << notTuner, tunerReq, tune_ok, center, stats, axis_position, t_error, mp, tp,
                    tlog, results, passes, started_widths >>

TunerNext ==
    \/ TuneCall
    \/ TuneMove
    \/ TuneFault
    \/ TuneRead
    \/ TuneEvaluate
    \/ TuneRecord
    \/ TuneFinalMove
    \/ TuneClose
    \/ MultiStart
    \/ MultiLoop
    \/ MultiAfter
    \/ TunerProbe

\* ---------------------------------------------------------- connect_pvlist

ConnectInit ==
    /\ c_wait \in BOOLEAN
    /\ c_timeout \in {0, 2, DefaultConnectTimeout}
    /\ c_poll \in {DefaultConnectPoll, 2}
    /\ c_pc = "c_init"
    /\ c_now = 0
    /\ connected = [p \in PVs |-> FALSE]
    /\ times_up = 0
    /\ waiting = FALSE
    /\ c_result = {}
    /\ c_error = "none"
    /\ connectedAt = [p \in PVs |-> None]
    /\ returnedAt = None

\* connect_pvlist is never called
ConnectParked ==
    /\ ConnectInit
    /\ c_wait = TRUE
    /\ c_timeout = DefaultConnectTimeout
    /\ c_poll = DefaultConnectPoll

\* lines 134-146: one EpicsSignal per PV, then times_up, poll_interval and
\* waiting; with wait false the dictionary is returned at once
ConnectEnter ==
    /\ c_pc = "c_init"
    /\ IF c_wait
       THEN /\ c_pc' = "c_while"
            /\ times_up' = c_now + Min(0, c_timeout)
            /\ c_poll' = Min(ConnectPollCap, c_poll)
            /\ waiting' = TRUE
            /\ UNCHANGED << c_result, returnedAt >>
       ELSE /\ c_pc' = "c_returned"
            /\ c_result' = PVs
            /\ returnedAt' = Some(c_now)
            /\ UNCHANGED << times_up, c_poll, waiting >>
    /\ UNCHANGED << notConnect, c_wait, c_timeout, c_now, connected, c_error, connectedAt >>

\* lines 147-149: one turn of the loop, or its end
ConnectWhile ==
    /\ c_pc = "c_while"
    /\ IF waiting /\ c_now < times_up
       THEN /\ c_now' = Min(c_now + c_poll, MaxConnectTime)
            /\ waiting' = (FALSE \in {connected[p] : p \in PVs})
            /\ c_pc' = "c_while"
       ELSE /\ c_pc' = "c_after"
            /\ UNCHANGED << c_now, waiting >>
    /\ UNCHANGED << notConnect, c_wait, c_timeout, c_poll, connected, times_up, c_result,
                    c_error, connectedAt, returnedAt >>

\* lines 150-161: with waiting still true only the connected PVs are kept,
\* and RuntimeError is raised when there is none
ConnectAfter ==
    /\ c_pc = "c_after"
    /\ LET n == {p \in PVs : connected[p]}
       IN  IF waiting /\ n = {}
           THEN /\ c_pc' = "c_raised"
                /\ c_error' = "RuntimeError"
                /\ UNCHANGED << c_result, returnedAt >>
           ELSE /\ c_pc' = "c_returned"
                /\ c_result' = IF waiting THEN n ELSE PVs
                /\ returnedAt' = Some(c_now)
                /\ c_error' = c_error
    /\ UNCHANGED << notConnect, c_wait, c_timeout, c_poll, c_now, connected, times_up,
                    waiting, connectedAt >>

\* Channel Access connects a PV whose EpicsSignal line 140 has created
PVConnect(p) ==
    /\ c_pc # "c_init"
    /\ ~connected[p]
    /\ connected' = [connected EXCEPT ![p] = TRUE]
    /\ connectedAt' = [connectedAt EXCEPT ![p] = Some(c_now)]
    /\ UNCHANGED << notConnect, c_wait, c_timeout, c_poll, c_pc, c_now, times_up, waiting,
                    c_result, c_error, returnedAt >>

\* time passes after the call
ConnectTick ==
    /\ c_pc # "c_init"
    /\ c_now < MaxConnectTime
    /\ c_now' = c_now + 1
    /\ UNCHANGED << notConnect, c_wait, c_timeout, c_poll, c_pc, connected, times_up,
                    waiting, c_result, c_error, connectedAt, returnedAt >>

ConnectNext ==
    \/ ConnectEnter
    \/ ConnectWhile
    \/ ConnectAfter
    \/ \E p \in PVs : PVConnect(p)
    \/ ConnectTick

\* ---------------------------------------------------------------- snapshot

\* what an object of obj_list can be: a Signal or EpicsSignal that is
\* connected, one that is not, and an object of another class
ObjKinds == { "signal", "disconnected", "other" }

\* the lists of at most n objects
ObjLists(n) == UNION { [1..k -> ObjKinds] : k \in 0..n }

\* line 231: isinstance(obj, (Signal, EpicsSignal)) and obj.connected
IsConnectedSignal(obj) == obj = "signal"

SnapMsg(ev, obj) == [ev |-> ev, obj |-> obj]

SnapInit ==
    /\ obj_list \in ObjLists(MaxObjs)
    /\ objects = << >>
    /\ s_pc = "s_init"
    /\ s_i = 0
    /\ s_msgs = << >>
    /\ s_error = "none"

\* snapshot is never called
SnapParked == SnapInit /\ obj_list = << >>

\* line 228: objects = []
SnapEnter ==
    /\ s_pc = "s_init"
    /\ s_pc' = "s_for"
    /\ objects' = << >>
    /\ s_i' = 1
    /\ UNCHANGED << notSnap, obj_list, s_msgs, s_error >>

\* lines 229-241: one turn of "for obj in obj_list": the object is appended
\* or ignored, then the test of len(objects), which stands in the loop
SnapFor ==
    /\ s_pc = "s_for"
    /\ s_i <= Len(obj_list)
    /\ objects' = IF IsConnectedSignal(obj_list[s_i])
                  THEN Append(objects, s_i) ELSE objects
    /\ IF Len(objects') = 0
       THEN /\ s_pc' = "s_raised"
            /\ s_error' = "ValueError"
            /\ s_i' = s_i
       ELSE /\ s_i' = s_i + 1
            /\ UNCHANGED << s_pc, s_error >>
    /\ UNCHANGED << notSnap, obj_list, s_msgs >>

\* the for loop has gone through obj_list; lines 243-264 build the metadata
SnapForEnd ==
    /\ s_pc = "s_for"
    /\ s_i > Len(obj_list)
    /\ s_pc' = "s_open"
    /\ UNCHANGED << notSnap, obj_list, objects, s_i, s_msgs, s_error >>

\* line 267: yield from bps.open_run(md)
SnapOpenRun ==
    /\ s_pc = "s_open"
    /\ s_pc' = "s_create"
    /\ s_msgs' = Append(s_msgs, SnapMsg("open_run", 0))
    /\ UNCHANGED << notSnap, obj_list, objects, s_i, s_error >>

\* line 268: yield from bps.create(name=stream)
SnapCreate ==
    /\ s_pc = "s_create"
    /\ s_pc' = "s_read"
    /\ s_i' = 1
    /\ s_msgs' = Append(s_msgs, SnapMsg("create", 0))
    /\ UNCHANGED << notSnap, obj_list, objects, s_error >>

\* lines 269-271: one turn of "for obj in objects": yield from bps.read(obj)
SnapRead ==
    /\ s_pc = "s_read"
    /\ s_i <= Len(objects)
    /\ s_i' = s_i + 1
    /\ s_msgs' = Append(s_msgs, SnapMsg("read", objects[s_i]))
    /\ UNCHANGED << notSnap, obj_list, objects, s_pc, s_error >>

\* line 272: yield from bps.save()
SnapSave ==
    /\ s_pc = "s_read"
    /\ s_i > Len(objects)
    /\ s_pc' = "s_close"
    /\ s_msgs' = Append(s_msgs, SnapMsg("save", 0))
    /\ UNCHANGED << notSnap, obj_list, objects, s_i, s_error >>

\* lines 273 and 275: yield from bps.close_run(), and the plan returns
SnapCloseRun ==
    /\ s_pc = "s_close"
    /\ s_pc' = "s_returned"
    /\ s_msgs' = Append(s_msgs, SnapMsg("close_run", 0))
    /\ UNCHANGED << notSnap, obj_list, objects, s_i, s_error >>

SnapNext ==
    \/ SnapEnter
    \/ SnapFor
    \/ SnapForEnd
    \/ SnapOpenRun
    \/ SnapCreate
    \/ SnapRead
    \/ SnapSave
    \/ SnapCloseRun

\* ------------------------------------------------------------ specifications

\* the plan that a specification does not run stays as it was constructed
ScanParked == ScanInit /\ poll_delay_s = 0 /\ phase_timeout_s = None
              /\ running_stream = None /\ final_array_stream = None
              /\ device_settings_stream = None

BlockerParked == BlockerInit /\ b_poll = DefaultPoll /\ b_timeout = None
                 /\ blocker = "returns"

TunerParked == TunerInit /\ t_req = DefaultRequest /\ self_snake = TRUE
               /\ peak_choice = "cen"

Init == ScanInit /\ BlockerParked /\ TunerParked /\ OtherParked /\ ConnectParked /\ SnapParked

Next == ScanNext

Spec == Init /\ [][Next]_vars

FairSpec ==
    /\ Spec
    /\ WF_vars(PlanProgress)
    /\ WF_vars(ExecuteCbUnsubscribe)

InitBlocker == BlockerInit /\ ScanParked /\ TunerParked /\ OtherParked /\ ConnectParked /\ SnapParked

NextBlocker == BlockerNext

SpecBlocker == InitBlocker /\ [][NextBlocker]_vars

\* The RunEngine keeps resuming the plan; a blocking function that returns
\* does so after a finite time, and the thread then goes on to line 102.
FairSpecBlocker ==
    /\ SpecBlocker
    /\ WF_vars(BlockerPlan)
    /\ WF_vars(BlockerThread)

\* either plan, one per behaviour: a plan starts only while the other one has
\* not left its first statement
InitSignals ==
    /\ (ScanInit /\ BlockerParked) \/ (BlockerInit /\ ScanParked)
    /\ TunerParked
    /\ OtherParked
    /\ ConnectParked /\ SnapParked

NextSignals ==
    \/ (b_pc = "b_init" /\ ScanNext)
    \/ (pc = "init" /\ BlockerNext)

SpecSignals == InitSignals /\ [][NextSignals]_vars

InitTuner == TunerInit /\ ScanParked /\ BlockerParked /\ OtherParked /\ ConnectParked /\ SnapParked

NextTuner == TunerNext

SpecTuner == InitTuner /\ [][NextTuner]_vars

\* two sscan_1D runs in one process: the first with a row stream only, the
\* second seen through the globals it shares with the first
InitTwoScans ==
    /\ ScanInit
    /\ poll_delay_s = PollMax
    /\ running_stream # None
    /\ final_array_stream = None
    /\ device_settings_stream = None
    /\ OtherInit
    /\ BlockerParked
    /\ TunerParked
    /\ ConnectParked /\ SnapParked

NextTwoScans == ScanNext \/ OtherNext

SpecTwoScans == InitTwoScans /\ [][NextTwoScans]_vars

InitConnect ==
    /\ ConnectInit
    /\ ScanParked
    /\ BlockerParked
    /\ TunerParked
    /\ OtherParked
    /\ SnapParked

NextConnect == ConnectNext

SpecConnect == InitConnect /\ [][NextConnect]_vars

InitSnap ==
    /\ SnapInit
    /\ ScanParked
    /\ BlockerParked
    /\ TunerParked
    /\ OtherParked
    /\ ConnectParked

NextSnap == SnapNext

SpecSnap == InitSnap /\ [][NextSnap]_vars

\* ------------------------------------------------------------- properties

LoopStates == {"loop", "body_if", "emit_read", "emit_save", "clear", "stall_check", "sleep"}
PostLoop == {"final", "settings", "close_run", "returned"}

\* the data of the records of one kind, in the order of emission
RECURSIVE DataOf(_, _)
DataOf(kind, recs) ==
    IF recs = << >> THEN << >>
    ELSE IF Head(recs).kind = kind
         THEN << Head(recs).data >> \o DataOf(kind, Tail(recs))
         ELSE DataOf(kind, Tail(recs))

Rows == DataOf("row", records)
NoSubscription == ~subsExec /\ ~subsPhase
Stalled == stallAt # None

\* C1: with the row stream enabled, a scan whose record delivered K "new
\* data" notifications and then went idle has emitted exactly the rows
\* 1..K, in that order, when the loop has ended with a successful status.
C1_ExactlyKRows ==
    (pc \in PostLoop /\ running_stream # None /\ sscan_status.done /\ sscan_status.success)
        => Rows = [i \in 1..notified |-> i]

\* C2: an IDLE delivered after the start command, also one delivered before
\* started = True, is not missed: the plan never returns an unsuccessful
\* status (one that the stall check had to mark) after such an IDLE.
C2_IdleNotMissed ==
    (idleDelivered = "before_started" /\ pc = "returned") => sscan_status.success

\* C3: the loop is left only with the status done and the pending-row flag
\* clear, and with every row that became pending before that check emitted.
C3_ExitFlushed ==
    [][(pc = "loop" /\ pc' = "final") =>
          /\ sscan_status.done
          /\ ~new_data
          /\ (running_stream # None => Len(Rows) = becamePending)]_vars

\* the first half of C3 alone
ExitOnlyDoneAndClear ==
    [][(pc = "loop" /\ pc' = "final") => (sscan_status.done /\ ~new_data)]_vars

\* C4: while the loop runs with a timeout configured, the status is marked
\* failed no later than one poll interval after the inactivity deadline: the
\* clock never exceeds deadline + poll_delay_s with the status not done, and
\* a status the stall check marked is done and unsuccessful.
C4_StallWithinOnePoll ==
    /\ (phase_timeout_s # None /\ pc \in LoopStates /\ ~sscan_status.done)
           => now <= inactive_deadline + poll_delay_s
    /\ Stalled => (sscan_status.done /\ ~sscan_status.success)

\* one phase notification, then silence for longer than phase_timeout_s, and
\* the stall check has marked the status
C4_Witness ==
    /\ Stalled
    /\ devPhases = 1
    /\ devExec = 1
    /\ Val(stallAt) > Val(phase_timeout_s)
    /\ ~sscan_status.success

CountOf(kind) == Len(DataOf(kind, records))

\* C5: a stall is a recoverable termination: the stall check raises nothing,
\* the plan goes on to its end (unless a row that arrives later fails to be
\* saved), and a plan that returned after a stall has emitted the enabled
\* final-array and settings records, has closed the run and returns the
\* status done and unsuccessful.
C5_StallRecoverable ==
    /\ [](  (Stalled /\ pc = "returned") =>
              /\ sscan_status.done /\ ~sscan_status.success
              /\ CountOf("arrays") = (IF final_array_stream # None THEN 1 ELSE 0)
              /\ CountOf("settings") = (IF device_settings_stream # None THEN 1 ELSE 0)
              /\ records[Len(records)].kind = "close_run")
    /\ [][pc = "stall_check" => pc' # "raised"]_vars
    /\ (Stalled ~> (pc = "returned" \/ error = "fault"))

C5_Witness ==
    /\ Stalled
    /\ pc = "returned"
    /\ final_array_stream # None
    /\ device_settings_stream # None
    /\ ~sscan_status.success

\* C6: when the stall check has marked the status failed, neither callback
\* is subscribed any more.
C6_StallUnsubscribes == Stalled => NoSubscription

\* C7: when a fault of the sink or of the hardware has ended the plan,
\* neither callback is subscribed any more.
C7_FaultUnsubscribes == (pc = "raised" /\ error = "fault") => NoSubscription

\* C8: once execute_cb has handled an IDLE received while started, the
\* status is done and successful and neither callback is subscribed.
C8_IdleMarksSuccess ==
    (idleDelivered = "started" /\ cbpc = "none")
        => (sscan_status.done /\ sscan_status.success /\ NoSubscription)

\* the rest of C8: after that IDLE no phase notification sets the flag or
\* moves the deadline
NoPhaseAfterIdle ==
    [][(idleDelivered = "started" /\ cbpc = "none")
          => ((new_data' => new_data) /\ inactive_deadline' = inactive_deadline)]_vars

\* C8 without a stall before the IDLE
IdleMarksSuccessUnlessStalled ==
    (idleDelivered = "started" /\ cbpc = "none" /\ ~Stalled)
        => (sscan_status.done /\ sscan_status.success /\ NoSubscription)

\* ---- run_blocker_in_plan

\* C9: when the timeout check finds the deadline passed and the status not
\* done, it marks the status done and unsuccessful and the plan returns it;
\* the step leaves the thread alone, a blocking function that returns still
\* runs to its end (line 102 included), and the status stays unsuccessful.
C9_TimeoutAbandons ==
    /\ [][(b_pc = "b_timeout" /\ b_pc' # b_pc /\ BlockerExpired /\ ~b_status.done)
             => (b_status' = [done |-> TRUE, success |-> FALSE]
                 /\ b_pc' = "b_returned" /\ thr' = thr)]_vars
    /\ [](b_timedOut => (b_status.done /\ ~b_status.success /\ b_pc = "b_returned"))
    /\ ((b_timedOut /\ blocker = "returns") ~> (thr = "finished"))

C9_Witness ==
    /\ b_timedOut
    /\ thr = "finished"
    /\ b_pc = "b_returned"
    /\ ~b_status.success

C12_FailedPassReturns ==
    \A i \in DOMAIN passes :
        ~passes[i].ok =>
            /\ passes[i].final_position = Some(passes[i].initial_position)
            /\ passes[i].last_mv = passes[i].initial_position
            /\ passes[i].axis_position = passes[i].initial_position

\* a pass that scanned away from where it started has failed and returned
C12_Witness ==
    /\ t_pc = "returned"
    /\ passes # << >>
    /\ ~passes[Len(passes)].ok
    /\ \E k \in DOMAIN tlog : tlog[k].ev = "mv" /\ tlog[k].x # passes[Len(passes)].initial_position

\* C13: tune with a peak_choice outside {'cen', 'com'} raises ValueError
\* before any message is yielded (no move, trigger, read or record), and the
\* raising step leaves tune_ok, center, the history, the accumulator and the
\* axis as they were.
C13_InvalidChoiceRejected ==
    [][ (t_error' = "ValueError" /\ t_error # "ValueError") =>
            /\ peak_choice \notin PeakChoices
            /\ tlog' = << >>
            /\ UNCHANGED << tune_ok, center, stats, peaks, axis_position, results >> ]_vars

\* a standalone tune was rejected on an instance whose earlier pass had
\* succeeded
C13_Witness ==
    /\ t_req.call = "tune"
    /\ t_error = "ValueError"
    /\ tune_ok
    /\ center # None
    /\ stats # << >>

\* the number of the first failed pass of the call, or n + 1 when none of
\* the first n passes has failed
RECURSIVE FirstFailed(_, _)
FirstFailed(ps, n) ==
    IF n = 0 THEN 1
    ELSE IF FirstFailed(ps, n - 1) <= n - 1 THEN FirstFailed(ps, n - 1)
    ELSE IF ~ps[n].ok THEN n ELSE n + 1

\* multi_pass_tune has been entered: lines 668-674 have run
MultiRun == t_req.call = "multi" /\ mp.pass_max > 0

\* C14: multi_pass_tune with pass budget N runs its passes one after another:
\* a pass is started only when every pass before it is complete and ended
\* with tune_ok = True, never more than N are started, and when the plan has
\* returned the number of passes run is min(N, number of the first failed
\* pass).
C14_StopsAtFailureOrBudget ==
    MultiRun =>
        /\ Len(started_widths) <= mp.pass_max
        /\ Len(passes) <= Len(started_widths)
        /\ Len(started_widths) <= Len(passes) + 1
        /\ \A i \in 1 .. Len(started_widths) - 1 : passes[i].ok
        /\ t_pc = "returned" =>
              /\ Len(passes) = Len(started_widths)
              /\ Len(passes) = Min(mp.pass_max, FirstFailed(passes, Len(passes)))

\* a run with the default budget of six passes stopped after its second
\* pass, which failed
C14_Witness ==
    /\ MultiRun
    /\ t_pc = "returned"
    /\ mp.pass_max = DefaultPassMax
    /\ Len(passes) = 2
    /\ passes[1].ok
    /\ ~passes[2].ok

\* a run used up its budget with every pass successful
C14_BudgetWitness ==
    /\ MultiRun
    /\ t_pc = "returned"
    /\ Len(passes) = mp.pass_max
    /\ \A i \in DOMAIN passes : passes[i].ok

StandaloneStart == t_req.call = "tune" /\ t_pc = "idle" /\ t_pc' = "move"
MultiStartStep == t_req.call = "multi" /\ t_pc = "idle" /\ t_pc' = "m_loop"

\* the part of C15 about a multi-pass run and about the entry of each pass
HistoryOfPasses ==
    /\ MultiStartStep => stats' = << >>
    /\ t_pc = "close" => stats' = Append(stats, Val(peaks))
    /\ MultiRun => (stats' = stats \/ (t_pc = "close" /\ stats' = Append(stats, Val(peaks))))
    /\ MultiRun =>
          /\ Len(stats) = Len(passes)
          /\ Len(stats) <= mp.pass_max
          /\ Len(stats) = mp.pass_max => \A i \in 1 .. Len(stats) - 1 : passes[i].ok

\* C15 as stated: the history is emptied at the start of a multi_pass_tune
\* run and at the start of every standalone tune call, is never emptied
\* between the passes of one run, and every completed pass appends one entry.
C15_HistoryEmptiedAtStart ==
    [][ /\ StandaloneStart => stats' = << >>
        /\ HistoryOfPasses ]_vars

\* C15, amended: the history is emptied at the start of a multi_pass_tune
\* run and at the start of a standalone tune call whose md has no 'pass_max'
\* key, is never emptied between the passes of one run, and every completed
\* pass appends one entry: the history of a run with budget N has one entry
\* per pass run, at most N, and N only if every pass before the last was
\* successful.
C15_HistoryEmptiedUnlessKey ==
    [][ /\ (StandaloneStart /\ ~t_req.md_pass_max) => stats' = << >>
        /\ HistoryOfPasses ]_vars

\* a two-pass run has returned with one entry per pass
C15_Witness ==
    /\ MultiRun
    /\ t_pc = "returned"
    /\ Len(passes) = 2
    /\ Len(stats) = 2
    /\ stats[2] = Val(peaks)

RECURSIVE Pow(_, _)
Pow(b, k) == IF k = 0 THEN 1 ELSE b * Pow(b, k - 1)

Abs(x) == IF x < 0 THEN -x ELSE x

\* the width multi_pass_tune starts from, line 668
InitialWidth == OrNumber(t_req.width, DefaultWidth)

\* C16: in a multi_pass_tune run with snake enabled, the width passed to
\* pass k (k = 0 for the first pass) has the magnitude of the initial width
\* divided by step_factor^k, the first pass has the sign of the initial width
\* and every pass the opposite sign of the pass before it.
C16_SnakeWidths ==
    (MultiRun /\ mp.snake) =>
        \A j \in DOMAIN started_widths :
            /\ Abs(started_widths[j]) * Pow(mp.step_factor, j - 1) = Abs(InitialWidth)
            /\ j = 1 => started_widths[j] = InitialWidth
            /\ j > 1 => (started_widths[j] > 0) = (started_widths[j - 1] < 0)

\* a snake run with the default width and step factor has started its third
\* pass
C16_Witness ==
    /\ MultiRun
    /\ mp.snake
    /\ Len(started_widths) >= 3
    /\ started_widths[1] > 0
    /\ started_widths[3] = started_widths[1] \div (DefaultStepFactor * DefaultStepFactor)

\* a snake run with a supplied negative width and step factor has started
\* its second pass
C16_NegativeWitness ==
    /\ MultiRun
    /\ mp.snake
    /\ mp.step_factor = 2
    /\ started_widths = << -2 * DefaultWidth, DefaultWidth >>

\* C17: a multi_pass_tune run requested with snake = False on a tuner whose
\* defaults are untouched (self.snake = True) uses a width of the same sign
\* in every pass, and the width, num, step_factor and pass_max that were
\* supplied are the ones the run uses.
C17_SnakeFalseKeepsSign ==
    (MultiRun /\ self_snake) =>
        /\ t_req.snake = Some(FALSE) =>
              \A j \in DOMAIN started_widths :
                  (started_widths[j] > 0) = (started_widths[1] > 0)
        /\ (t_req.width # None /\ started_widths # << >>) =>
              started_widths[1] = Val(t_req.width)
        /\ t_req.num # None => mp.num = Val(t_req.num)
        /\ t_req.step_factor # None => mp.step_factor = Val(t_req.step_factor)
        /\ t_req.pass_max # None => mp.pass_max = Val(t_req.pass_max)

\* a step in which peak_detected() returns: in the pass (line 598) or in a
\* direct call
EvaluateStep == t_pc = "evaluate" /\ t_pc' # "evaluate"
ProbeStep == probe = "unasked" /\ probe' # "unasked"

\* the accumulator has statistics whose maximum is more than 4 times the
\* minimum
StrictlyPeaked(pk) ==
    /\ pk # None
    /\ Val(pk).n > 0
    /\ Val(pk).hi > 4 * Val(pk).lo

C18_NoAccumulatorWitness == probe = "false" /\ peaks = None

\* peak_detected() was called on an accumulator that had collected nothing
C18_NoSamplesWitness == probe = "false" /\ peaks # None /\ Val(peaks).n = 0

\* a pass with the maximum 10 and the minimum 1 was evaluated as a peak
C18_PeakWitness ==
    /\ t_pc = "record"
    /\ Val(peaks).max = Some(10)
    /\ Val(peaks).min = Some(1)
    /\ tune_ok

\* C19: tune called with width = 0 is accepted, and every move of its scan
\* targets the position the axis had when the pass began.
C19_ZeroWidthStaysPut ==
    (t_req.call = "tune" /\ t_req.width = Some(0) /\ t_pc \in {"move", "read", "evaluate"}) =>
        \A k \in DOMAIN tlog : tlog[k].ev = "mv" => tlog[k].x = tp.initial_position

\* the current pass has been evaluated and has emitted what it emits
AfterRecord ==
    \/ t_pc \in {"final_move", "close", "m_after", "returned"}
    \/ (t_pc = "m_loop" /\ started_widths # << >>)

\* C20: a pass emits one 'PeakStats' record when tune_ok is true and none
\* when it is false; every emitted record has tune_ok true and its center
\* equal to its final_position, which is the accumulator's cen for
\* peak_choice 'cen' and its com for 'com'; a pass whose peak search failed
\* goes on without an exception.
C20_OneRecordIffTuned ==
    /\ AfterRecord => Len(results) = (IF tune_ok THEN 1 ELSE 0)
    /\ \A i \in DOMAIN passes : passes[i].records = (IF passes[i].ok THEN 1 ELSE 0)
    /\ \A i \in DOMAIN results :
          /\ results[i].tune_ok
          /\ results[i].center = results[i].final_position
          /\ results[i].final_position =
                (IF peak_choice = "cen" THEN Val(peaks).cen ELSE Val(peaks).com)
    /\ (AfterRecord /\ ~tune_ok) => t_error = "none"

\* a pass with peak_choice 'com' has emitted its record and returned
C20_Witness ==
    /\ t_pc = "returned"
    /\ peak_choice = "com"
    /\ Len(results) = 1
    /\ results[1].center = Val(peaks).com
    /\ Val(peaks).com # Val(peaks).cen

\* a failed pass has returned without a record
C20_FailedWitness ==
    /\ t_pc = "returned"
    /\ passes # << >>
    /\ ~tune_ok
    /\ results = << >>

\* ---- sscan_1D: the poll interval, the record order, the callbacks

\* the plan has been resumed for the first time: lines 364-375 have run
Entered == pc # "init"

\* nothing has been done to the record or the run
NothingIssued ==
    /\ ~subsExec
    /\ ~subsPhase
    /\ records = << >>
    /\ devExec = IdleValue
    /\ ~started

\* C21: sscan_1D accepts the poll intervals 0.0 and 0.1 and rejects
\* 0.1000001 and every negative one; a rejected call has made no
\* subscription, opened no run and issued no start command.
C21_PollBounds ==
    /\ (Entered /\ poll_delay_s \in {0, PollMax}) => error # "AssertionError"
    /\ (Entered /\ (poll_delay_s = PollMax + 1 \/ poll_delay_s < 0)) =>
          /\ pc = "raised"
          /\ error = "AssertionError"
          /\ NothingIssued

\* a call with the poll interval 0.1000001 was rejected
C21_Witness ==
    /\ poll_delay_s = PollMax + 1
    /\ pc = "raised"
    /\ error = "AssertionError"

\* a call with the poll interval 0.0 has opened its run
C21_ZeroWitness == poll_delay_s = 0 /\ records # << >> /\ error = ""

\* C22 as stated: every poll interval outside (0, 0.1] is rejected: one that
\* is not strictly greater than 0, exactly 0 included, and one greater than
\* 0.1.
C22_RejectsOutsideOpenRange ==
    (Entered /\ ~(0 < poll_delay_s /\ poll_delay_s <= PollMax)) => error = "AssertionError"

\* C22, amended: the poll intervals sscan_1D rejects are those outside the
\* closed range [0, 0.1]: the negative ones and those greater than 0.1;
\* exactly 0 is accepted.
C22_RejectsOutsideClosedRange ==
    Entered =>
        (error = "AssertionError" <=> (poll_delay_s < 0 \/ poll_delay_s > PollMax))

\* a call with a negative poll interval was rejected
C22_Witness ==
    /\ poll_delay_s < 0
    /\ pc = "raised"
    /\ error = "AssertionError"

\* the place of a record in the order of one run
Rank(kind) ==
    CASE kind = "open_run" -> 0
      [] kind = "row" -> 1
      [] kind = "arrays" -> 2
      [] kind = "settings" -> 3
      [] kind = "close_run" -> 4

\* the stream a kind of record goes to
StreamOf(kind) ==
    CASE kind = "row" -> running_stream
      [] kind = "arrays" -> final_array_stream
      [] kind = "settings" -> device_settings_stream
      [] OTHER -> Some("")

RecordOrder ==
    /\ \A i, j \in DOMAIN records : i < j => Rank(records[i].kind) <= Rank(records[j].kind)
    /\ \A i \in DOMAIN records :
          /\ StreamOf(records[i].kind) # None
          /\ records[i].stream = Val(StreamOf(records[i].kind))
    /\ CountOf("arrays") <= 1
    /\ CountOf("settings") <= 1
    /\ CountOf("close_run") <= 1
    /\ pc = "returned" =>
          /\ CountOf("arrays") = (IF final_array_stream # None THEN 1 ELSE 0)
          /\ CountOf("settings") = (IF device_settings_stream # None THEN 1 ELSE 0)
          /\ CountOf("close_run") = 1
          /\ records[Len(records)].kind = "close_run"

\* C23: the records of one run come in the order rows, final arrays,
\* settings, run close; one final-array record exactly when a final-array
\* stream is named, one settings record exactly when a settings stream is
\* named; a stream that is None receives nothing; with the row stream None
\* the loop emits no row and still clears the pending-row flag (line 415).
C23_RecordOrder ==
    [][ /\ RecordOrder'
        /\ (pc = "body_if" /\ pc' # "body_if" /\ running_stream = None) => pc' = "clear"
        /\ (pc = "clear" /\ pc' # "clear") => ~new_data' ]_vars

\* a run without a row stream, with both other streams, has returned: new
\* data had been notified, and the records are open, arrays, settings, close
C23_Witness ==
    /\ pc = "returned"
    /\ running_stream = None
    /\ notified > 0
    /\ Len(records) = 4
    /\ records[2].kind = "arrays"
    /\ records[3].kind = "settings"

\* a run with all three streams has returned with a row before the arrays
C23_RowsWitness ==
    /\ pc = "returned"
    /\ Len(records) >= 5
    /\ records[2].kind = "row"
    /\ records[Len(records) - 2].kind = "arrays"
    /\ records[Len(records) - 1].kind = "settings"

\* the start command (line 405) has not been issued
BeforeStartStates == {"init", "sub_exec", "sub_phase", "open_run", "start"}
BeforeStart == pc \in BeforeStartStates

\* C24: an idle execute-control notification delivered before the start
\* command is issued, such as the call execute_cb gets from the subscription
\* itself, leaves the Completion Signal not done and both subscriptions in
\* place; started is true only after the start command was issued.
C24_PreStartIdleIgnored ==
    /\ BeforeStart => (~sscan_status.done /\ ~started)
    /\ pc \in {"sub_phase", "open_run", "start"} => subsExec
    /\ pc \in {"open_run", "start"} => subsPhase
    /\ started => pc \notin (BeforeStartStates \cup {"set_started"})

\* both subscriptions were made while the record was idle, and the plan is
\* about to issue the start command
C24_Witness ==
    /\ pc = "start"
    /\ devExec = IdleValue
    /\ subsExec
    /\ subsPhase
    /\ ~sscan_status.done

\* C25: the pending-row flag and the inactivity deadline the first scan
\* reads are its own: no step of the second scan changes them, and the first
\* scan has emitted no more rows than its own record has notified.
C25_ScansIndependent ==
    [][ /\ other' # other => UNCHANGED << new_data, inactive_deadline >>
        /\ Len(Rows') <= notified' ]_vars

\* the first scan emits a row its own record never notified
C25_SpuriousRow ==
    /\ other.notified > 0
    /\ notified = 0
    /\ Len(Rows) > 0

\* C26: with phase_timeout_s = None the stall check never marks the status:
\* a done status is a successful one; no step after the entry of the plan
\* moves inactive_deadline, phase notifications included; and the loop has
\* ended only after execute_cb received the idle value while started.
C26_NoTimeoutNoStall ==
    [][ phase_timeout_s = None =>
          /\ stallAt' = None
          /\ sscan_status'.done => sscan_status'.success
          /\ Entered => inactive_deadline' = inactive_deadline
          /\ pc' \in PostLoop => idleDelivered' = "started" ]_vars

\* a run without a timeout has returned after phase notifications and after
\* the clock had passed the deadline value set at the entry
C26_Witness ==
    /\ phase_timeout_s = None
    /\ pc = "returned"
    /\ notified > 0
    /\ devPhases > notified
    /\ now > inactive_deadline
    /\ sscan_status = [done |-> TRUE, success |-> TRUE]

\* ---- connect_pvlist

\* C27: connect_pvlist with wait = True returns a dictionary that holds
\* every PV that became connected within timeout seconds of the call, and
\* it returns only when all PVs are connected or timeout seconds have
\* passed.
C27_WaitsUpToTimeout ==
    (c_wait /\ c_pc = "c_returned") =>
        /\ \A p \in PVs :
              (connectedAt[p] # None /\ Val(connectedAt[p]) <= c_timeout) => p \in c_result
        /\ \/ \A p \in PVs : connectedAt[p] # None /\ Val(connectedAt[p]) <= Val(returnedAt)
           \/ Val(returnedAt) >= c_timeout

\* with the default timeout of 2 s the call returned at once, without a PV
\* that connected 0.01 s later
C27_ReturnedEarly ==
    /\ c_wait
    /\ c_timeout = DefaultConnectTimeout
    /\ c_pc = "c_returned"
    /\ returnedAt = Some(0)
    /\ \E p \in PVs : connectedAt[p] = Some(1) /\ p \notin c_result

\* ---- TuneAxis: the order of one pass

\* the messages of the current pass: from its open_run on
LastOpen ==
    CHOOSE k \in DOMAIN tlog :
        /\ tlog[k].ev = "open_run"
        /\ \A j \in DOMAIN tlog : j > k => tlog[j].ev # "open_run"

PassLog == SubSeq(tlog, LastOpen, Len(tlog))

\* what follows the scan: the record of a tuned pass, the final move, the close
PassTail ==
    (IF tune_ok THEN << Msg("record", 0) >> ELSE << >>)
        \o << Msg("mv", Val(tp.final_position)), Msg("close_run", 0) >>

\* the current pass is closed
PassClosed ==
    \/ t_pc \in {"m_after", "returned"}
    \/ (t_pc = "m_loop" /\ started_widths # << >>)

MovesIn(log) == Cardinality({k \in DOMAIN log : log[k].ev = "mv"})

\* C28: the messages of one pass are open_run; then, for i = 0 .. num - 1 in
\* this order, the move to initial - width/2 + i * width/(num - 1) followed
\* by the trigger-and-read at that position; then, the peak having been
\* evaluated after the last read, the result record if tune_ok; then the
\* move to final_position, whatever it is; then, the accumulator appended to
\* the history, close_run.  A closed pass has commanded num + 1 moves.
C28_PassOrder ==
    tlog # << >> =>
        LET L == PassLog
            n == tp.num
            scanned == 2 * n + 1
        IN  /\ \A k \in 2 .. Min(Len(L), scanned) :
                  /\ L[k].ev = (IF k % 2 = 0 THEN "mv" ELSE "read")
                  /\ 2 * (n - 1) * L[k].x =
                         2 * (n - 1) * tp.initial_position - (n - 1) * tp.width
                             + 2 * ((k - 2) \div 2) * tp.width
            /\ t_pc = "read" => (Len(L) % 2 = 0 /\ axis_position = L[Len(L)].x)
            /\ t_pc = "evaluate" => Len(L) = scanned
            /\ Len(L) > scanned =>
                  /\ Len(L) - scanned <= Len(PassTail)
                  /\ SubSeq(L, scanned + 1, Len(L)) = SubSeq(PassTail, 1, Len(L) - scanned)
            /\ PassClosed =>
                  /\ Len(L) = scanned + Len(PassTail)
                  /\ MovesIn(L) = n + 1
                  /\ stats # << >>
                  /\ stats[Len(stats)] = Val(peaks)

\* a failed pass of ten positions has closed after eleven moves
C28_Witness ==
    /\ t_pc = "returned"
    /\ t_req.call = "tune"
    /\ tp.num = DefaultNum
    /\ ~tune_ok
    /\ MovesIn(PassLog) = DefaultNum + 1

\* a tuned pass of the second turn of a multi-pass run has closed
C28_TunedWitness ==
    /\ t_pc = "m_after"
    /\ Len(passes) = 2
    /\ tune_ok
    /\ PassLog[2 * tp.num + 2].ev = "record"

\* C29: in a multi_pass_tune run every pass begins where the pass before it
\* moved the axis, its final position, and begins with tune_ok reset: while
\* a pass scans, tune_ok is false whatever the pass before it found.
C29_PassesChained ==
    MultiRun =>
        /\ \A i \in DOMAIN passes :
              /\ passes[i].axis_position = Val(passes[i].final_position)
              /\ i > 1 => passes[i].initial_position = Val(passes[i - 1].final_position)
        /\ (Len(started_widths) > Len(passes) /\ passes # << >>) =>
              tp.initial_position = Val(passes[Len(passes)].final_position)
        /\ t_pc \in {"move", "read", "evaluate"} => ~tune_ok

\* the second pass of a run scans, after a first pass that found a peak
\* away from where it began
C29_Witness ==
    /\ MultiRun
    /\ t_pc = "read"
    /\ Len(passes) = 1
    /\ passes[1].ok
    /\ Val(passes[1].final_position) # passes[1].initial_position
    /\ tp.initial_position = Val(passes[1].final_position)
    /\ ~tune_ok

\* ---- sscan_1D: rows and notifications

\* C30: sscan_1D emits no spurious row: the rows emitted are never more than
\* the 'new data' phase notifications delivered; a row is added only by the
\* save of the poll loop (line 414), a step that is no callback; and the
\* rows emitted are never taken back.
C30_NoSpuriousRow ==
    [][ /\ Len(Rows') <= notified'
        /\ Len(Rows') >= Len(Rows)
        /\ SubSeq(Rows', 1, Len(Rows)) = Rows
        /\ Len(Rows') > Len(Rows) =>
              /\ Len(Rows') = Len(Rows) + 1
              /\ pc = "emit_save"
              /\ pc' = "clear"
              /\ UNCHANGED << scanDrv, scanDev, notified >> ]_vars

\* two notifications, two rows
C30_Witness ==
    /\ notified = 2
    /\ Len(Rows) = 2

\* two notifications in one turn of the loop, one row
C30_FewerWitness ==
    /\ pc = "returned"
    /\ running_stream # None
    /\ notified = 2
    /\ Len(Rows) = 1

\* ---- sscan_1D: phase notifications and the deadline

\* a step in which phase_cb is called: at the subscription (line 400) or for
\* a notification of the record while phase_cb is subscribed
PhaseCall ==
    \/ pc = "sub_phase" /\ pc' = "open_run"
    \/ devPhases' # devPhases /\ subsPhase

\* the value phase_cb is called with is the 'new data' value
NewDataCall == devRows' # devRows

\* the stall check marks the status failed in this step
StallDeclared == stallAt = None /\ stallAt' # None

\* C31: with a timeout configured every call of phase_cb, whatever its value,
\* sets the deadline to now + phase_timeout_s; the pending-row flag is set
\* by the 'new data' value only; and the run is declared stalled only when
\* more than phase_timeout_s has passed since the last call of phase_cb, so
\* a record that keeps changing phase is not declared stalled, rows or not.
C31_AnyPhaseKeepsAlive ==
    [][ /\ (PhaseCall /\ phase_timeout_s # None) =>
              inactive_deadline' = now + Val(phase_timeout_s)
        /\ PhaseCall => new_data' = (new_data \/ NewDataCall)
        /\ (new_data' /\ ~new_data) => (PhaseCall /\ NewDataCall)
        /\ StallDeclared =>
              /\ phaseAt # None
              /\ now > Val(phaseAt) + Val(phase_timeout_s) ]_vars

\* the stall check has passed a run whose record changed phase without a row,
\* at a time when the deadline set at the entry had expired
C31_Witness ==
    /\ phase_timeout_s # None
    /\ pc = "sleep"
    /\ now > Val(phase_timeout_s)
    /\ devPhases > 0
    /\ devRows = 0
    /\ ~new_data
    /\ ~sscan_status.done
    /\ stallAt = None

\* a run declared stalled after its record had changed phase
C31_StalledWitness ==
    /\ stallAt # None
    /\ devPhases > 0
    /\ Val(phaseAt) > 0

\* ---- run_blocker_in_plan: termination

\* the plan has reached "return status" (line 116)
BlockerReturned == b_pc = "b_returned"

\* C32: with a timeout configured the plan returns whatever the blocking
\* function does (returns, raises, never returns); with no timeout it returns
\* if the blocking function returns normally and otherwise never does, and a
\* blocking function that raises leaves the status not done for ever.
C32_BlockerTermination ==
    /\ (b_pc = "b_init" /\ (b_timeout # None \/ blocker = "returns")) ~> BlockerReturned
    /\ []((b_timeout = None /\ blocker # "returns") => ~BlockerReturned)
    /\ []((b_timeout = None /\ blocker = "raises") => ~b_status.done)

\* with a timeout the plan has returned although the blocking function raised
C32_Witness ==
    /\ b_timeout # None
    /\ blocker = "raises"
    /\ thr = "raised"
    /\ BlockerReturned
    /\ b_status = [done |-> TRUE, success |-> FALSE]

\* with a timeout the plan has returned while the blocking function still runs
C32_NeverWitness ==
    /\ b_timeout # None
    /\ blocker = "never"
    /\ thr = "running"
    /\ BlockerReturned

\* without a timeout the plan still polls, at the end of the clock, a status
\* that the thread of a blocking function that raised has left not done
C32_StuckWitness ==
    /\ b_timeout = None
    /\ blocker = "raises"
    /\ thr = "raised"
    /\ b_now = MaxBlockerTime
    /\ b_pc = "b_sleep"
    /\ ~b_status.done

\* ---- snapshot

\* the places of obj_list that hold a connected signal, in list order
RECURSIVE ConnectedFrom(_)
ConnectedFrom(i) ==
    IF i > Len(obj_list) THEN << >>
    ELSE IF IsConnectedSignal(obj_list[i])
         THEN << i >> \o ConnectedFrom(i + 1)
         ELSE ConnectedFrom(i + 1)

ConnectedSignals == ConnectedFrom(1)

\* the messages of one record that reads the objects at the places ps
SnapRecord(ps) ==
    << SnapMsg("open_run", 0), SnapMsg("create", 0) >>
    \o [k \in 1..Len(ps) |-> SnapMsg("read", ps[k])]
    \o << SnapMsg("save", 0), SnapMsg("close_run", 0) >>

\* snapshot has ended, by return or by exception
SnapEnded == s_pc \in {"s_returned", "s_raised"}

\* C33: snapshot raises 'No signals to log.' exactly when no object of
\* obj_list is a connected signal; otherwise it raises nothing and yields
\* open_run, create, one read per connected signal in list order, save and
\* close_run, and no trigger.
C33_RaisesIffNoSignal ==
    /\ SnapEnded => (s_pc = "s_raised" <=> ConnectedSignals = << >>)
    /\ s_pc = "s_raised" => (s_error = "ValueError" /\ s_msgs = << >>)
    /\ s_pc = "s_returned" => s_msgs = SnapRecord(ConnectedSignals)
    /\ \A k \in DOMAIN s_msgs : s_msgs[k].ev # "trigger"

\* ValueError for a list whose second object is a connected signal
C33_RaisedWithSignal ==
    /\ s_pc = "s_raised"
    /\ Len(obj_list) >= 2
    /\ IsConnectedSignal(obj_list[2])

\* no error for the empty list: a record without a reading
C33_EmptyReturned ==
    /\ s_pc = "s_returned"
    /\ obj_list = << >>
    /\ s_msgs = SnapRecord(<< >>)

\* what the code does: the error is raised exactly when the first object is
\* not a connected signal, and a run that returns has read the connected
\* signals in list order
SnapRaisesOnFirst ==
    /\ SnapEnded => (s_pc = "s_raised" <=>
                        (obj_list # << >> /\ ~IsConnectedSignal(obj_list[1])))
    /\ s_pc = "s_returned" => s_msgs = SnapRecord(ConnectedSignals)

=============================================================================
